---------------------------- MODULE Spec2Model ----------------------------
(***************************************************************************)
(* A model of pysynscan: the Skywatcher motor-controller codec             *)
(* (synscan/protocol.py), the UDP transport with its lock and bounded      *)
(* retry (synscan/udp.py) and the axis / mount orchestration               *)
(* (synscan/motorizedbase.py).                                             *)
(*                                                                         *)
(* Byte strings are sequences of one-character strings.  The               *)
(* specifications share the module's variables:                            *)
(*   SpecCodec      the codec, the response parser and the angle           *)
(*                  conversions applied to bounded inputs                  *)
(*   SpecTransport  threads calling send_command on one shared transport   *)
(*   SpecMount      one caller running the operations of a mount and of    *)
(*                  its motors, one call after the other                   *)
(* Each leaves the other two groups of variables at their initial values.  *)
(* SpecTransportFair and SpecMountFair add, for the claims about           *)
(* termination, that a thread which can take a step eventually takes one.  *)
(***************************************************************************)
EXTENDS Integers, Sequences, FiniteSets, TLC

VARIABLES
    \* ---- codec harness
    cMode,      \* "transcode" | "roundtrip" | "parse" | "convert" | "position" |
                \* "status" | "off"
    cIn,        \* the input: a byte string (transcode, parse), an integer
                \* (roundtrip), <<counts_per_revolution, degrees>> (convert) or
                \* <<counts_per_revolution, raw value>> (position), a status
                \* value (status)
    cData,      \* the byte string the harness currently holds
    cInt,       \* the integer read back by to_int (roundtrip), -1 before
    cStep,      \* how many harness steps have been applied
    cKind,      \* parse: what _parse_binary_response returned or raised
    cCode,      \* parse: what error_code() of the raised error returned or raised
    \* ---- transport
    lock,       \* UdpCommunicationsModule.lock: the holding thread, or NoThread
    pc,         \* per thread: position inside send_command
    retries,    \* per thread: _retries of func_with_retries
    sends,      \* per thread: sendto calls made by the current send_command
    cur,        \* per thread: id of the datagram sent in the current attempt
    result,     \* per thread: the response read; send_command returns it if it parses
    err,        \* per thread: the exception send_command raised
    calls,      \* send_command calls started so far
    nextId,     \* ids given to datagrams so far
    pending,    \* peer: datagrams received and not answered yet
    sockbuf,    \* the socket's receive queue: the replies, by the datagram answered
    replies,    \* replies the peer has sent so far
    \* ---- mount
    op,         \* the operation the caller is running
    mpc,        \* the caller's position in it
    todo,       \* the steps of the operation still to run
    wire,       \* commands handed to the transport by the operation, in order
    merr,       \* the exception the operation raised
    mount,      \* the AzGti object returned by wifi_mount, or NoMount
    acc,        \* values read so far by Motor.initialize
    running,    \* device: per channel, whether the axis is moving
    samples,    \* goto: the list of sampler results
    sampling,   \* goto: whether a sampling_function was supplied
    iter,       \* goto: iterations of the poll loop performed
    outcomes,   \* per exchange of the operation, whether it succeeded
    arg,        \* the motor and the angle the operation was called with
    ret,        \* the angle the operation returned
    prev        \* the set_... call that returned just before this operation

codecVars == <<cMode, cIn, cData, cInt, cStep, cKind, cCode>>
transportVars == <<lock, pc, retries, sends, cur, result, err, calls, nextId,
                   pending, sockbuf, replies>>
mountVars == <<op, mpc, todo, wire, merr, mount, acc, running, samples,
               sampling, iter, outcomes, arg, ret, prev>>
vars == <<codecVars, transportVars, mountVars>>

-----------------------------------------------------------------------------
(* Bounds of the model *)

MaxPairs == 3          \* transcode inputs have at most this many 2-char groups
NumThreads == 2        \* threads sharing the transport
MaxCalls == 2          \* send_command calls over the whole run
MaxDatagrams == 4      \* datagrams sent over the whole run
MaxPolls == 3          \* polls of goto's loop that may report running
MaxPayload == 4        \* parsed responses carry at most this many payload bytes
MaxTurns == 2          \* converted counts lie within this many revolutions of 0

-----------------------------------------------------------------------------
(* protocol.py: constants *)

CR == "\r"
CommandHeader == ":"
ResponseHeader == "="
ErrorMessageHeader == "!"

Channel1 == "1"
Channel2 == "2"
BothChannels == "3"

SetPosition == "E"
InitializationDone == "F"
SetMotionMode == "G"
SetGotoTarget == "S"
SetStepPeriod == "I"
StartMotion == "J"
StopMotion == "K"
SetAuxSwitchOnOff == "O"
InquireCountsPerRevolution == "a"
InquireTimerInterruptFreq == "b"
InquireGotoTargetPosition == "h"
InquirePosition == "j"
InquireStatus == "f"

\* ErrorCode: the code bytes and their names
ErrorCode ==
    { <<<<"0">>, "UnknownCommand">>, <<<<"1">>, "CommandLengthError">>,
      <<<<"2">>, "MotorNotStopped">>, <<<<"3">>, "InvalidCharacter">>,
      <<<<"4">>, "NotInitialized">>, <<<<"5">>, "DriverSleeping">>,
      <<<<"7">>, "PecTrainingIsRunning">>, <<<<"8">>, "NoValidPECdata">> }

HexDigits == <<"0", "1", "2", "3", "4", "5", "6", "7", "8", "9",
               "A", "B", "C", "D", "E", "F">>
LowerHexDigits == <<"0", "1", "2", "3", "4", "5", "6", "7", "8", "9",
                    "a", "b", "c", "d", "e", "f">>

-----------------------------------------------------------------------------
(* protocol.py: the codec *)

\* input[a:b] of Python, 0-based, clipped to the string
Slice(s, a, b) ==
    LET lo == IF a < 0 THEN 0 ELSE a
        hi == IF b > Len(s) THEN Len(s) ELSE b
    IN  IF hi <= lo THEN << >> ELSE SubSeq(s, lo + 1, hi)

RECURSIVE JoinReversed(_)
JoinReversed(groups) ==
    IF groups = << >> THEN << >>
    ELSE JoinReversed(Tail(groups)) \o Head(groups)

\* a plausible slip: each group keeps one character, input[i:i + 1]
transcode_short_groups(input) ==
    LET n == (Len(input) + 1) \div 2
        digit_pairs == [k \in 1..n |-> Slice(input, 2 * (k - 1), 2 * (k - 1) + 1)]
    IN  JoinReversed(digit_pairs)

\* transcode: the 2-character groups input[i:i + 2], i = 0, 2, 4, ..., joined
\* in reverse order (an odd-length input ends in a 1-character group)
transcode(input) ==
    LET n == (Len(input) + 1) \div 2
        digit_pairs == [k \in 1..n |-> Slice(input, 2 * (k - 1), 2 * (k - 1) + 2)]
    IN  JoinReversed(digit_pairs)

IsHexDigit(c) == \E i \in 1..16 : HexDigits[i] = c \/ LowerHexDigits[i] = c
HexValue(c) == (CHOOSE i \in 1..16 : HexDigits[i] = c \/ LowerHexDigits[i] = c) - 1

RECURSIVE HexToInt(_)
HexToInt(s) ==
    IF s = << >> THEN 0
    ELSE 16 * HexToInt(SubSeq(s, 1, Len(s) - 1)) + HexValue(s[Len(s)])

\* int(data, 16) raises ValueError on an empty or non-hex string
to_int_raises(data) == data = << >> \/ \E i \in 1..Len(data) : ~IsHexDigit(data[i])

\* DataSegment.to_int
to_int(data) == HexToInt(data)

RECURSIVE HexUpper(_)
HexUpper(v) ==
    IF v < 16 THEN <<HexDigits[v + 1]>>
    ELSE HexUpper(v \div 16) \o <<HexDigits[(v % 16) + 1]>>

RECURSIVE ZeroPad(_, _)
ZeroPad(s, width) == IF Len(s) >= width THEN s ELSE ZeroPad(<<"0">> \o s, width)

\* a plausible slip: "%X" % value, no zero padding
from_int_unpadded(value) ==
    IF value >= 0 THEN HexUpper(value) ELSE <<"-">> \o HexUpper(-value)

\* DataSegment.from_int: "%06X" % value; the width 6 is a minimum, and it
\* counts the sign of a negative value
from_int(value) ==
    IF value >= 0 THEN ZeroPad(HexUpper(value), 6)
    ELSE <<"-">> \o ZeroPad(HexUpper(-value), 5)

\* DataSegment.to_bytes
DataSegment_to_bytes(data) == transcode(data)

\* DataSegment.from_bytes: transcode(raw_data[1:-1])
from_bytes(raw_data) == transcode(Slice(raw_data, 1, Len(raw_data) - 1))

\* a slip: the payload goes out as it is, not transcoded
CommandMessage_to_bytes_raw(msg) ==
    <<CommandHeader, msg.command, msg.channel>> \o msg.payload \o <<CR>>

\* CommandMessage.to_bytes
CommandMessage_to_bytes(msg) ==
    <<CommandHeader, msg.command, msg.channel>> \o DataSegment_to_bytes(msg.payload)
        \o <<CR>>

\* MotorControllerMessage.to_bytes
MotorControllerMessage_to_bytes(payload) ==
    <<ResponseHeader>> \o DataSegment_to_bytes(payload) \o <<CR>>

\* a slip: whatever is not an error is returned as a message
parse_binary_response_lenient(response) ==
    IF Slice(response, 0, 1) = <<ErrorMessageHeader>>
    THEN [kind |-> "MotorControllerError", data |-> from_bytes(response)]
    ELSE [kind |-> "MotorControllerMessage", data |-> from_bytes(response)]

\* CommunicationsModule._parse_binary_response: the kind of outcome and the
\* data segment it carries
parse_binary_response(response) ==
    IF Slice(response, 0, 1) = <<ErrorMessageHeader>>
    THEN [kind |-> "MotorControllerError", data |-> from_bytes(response)]
    ELSE IF Slice(response, 0, 1) = <<ResponseHeader>>
    THEN [kind |-> "MotorControllerMessage", data |-> from_bytes(response)]
    ELSE [kind |-> "TypeError", data |-> << >>]

\* MotorControllerError.error_code: ErrorCode(self.payload.data), the name of
\* the member with that value, or the ValueError of the Enum lookup
error_code(data) ==
    IF \E e \in ErrorCode : e[1] = data
    THEN (CHOOSE e \in ErrorCode : e[1] = data)[2]
    ELSE "ValueError"

-----------------------------------------------------------------------------
(* motorizedbase.py: Motor and AzGti.  An operation is the sequence of steps  *)
(* its code runs: a step hands one command to the transport (and may read the *)
(* integer of the response) or raises an exception.  Angles are whole         *)
(* degrees; a speed is a fraction num/den of a degree per second, den > 0.    *)
(* Arithmetic is exact.                                                       *)

MotorPositionOffset == 8388608

Cmd(command, channel, payload) ==
    [kind |-> "send", command |-> command, channel |-> channel,
     payload |-> payload, use |-> "ignore"]

Inq(command, channel) ==
    [kind |-> "send", command |-> command, channel |-> channel,
     payload |-> << >>, use |-> "to_int"]

Raise(exception) ==
    [kind |-> "raise", command |-> exception, channel |-> "",
     payload |-> << >>, use |-> "ignore"]

\* the message a step hands to send_command
Message(step) ==
    [command |-> step.command, channel |-> step.channel, payload |-> step.payload]

Abs(x) == IF x < 0 THEN -x ELSE x

\* quotient and remainder of a * k by b, for a, k >= 0 and b > 0, by doubling,
\* so that no intermediate value leaves 32 bits when the quotient fits
RECURSIVE MulDivQR(_, _, _)
MulDivQR(a, k, b) ==
    IF k = 0 THEN [q |-> 0, r |-> 0]
    ELSE LET half == MulDivQR(a, k \div 2, b)
             rest == 2 * half.r + (k % 2) * (a % b)
         IN  [q |-> 2 * half.q + (k % 2) * (a \div b) + rest \div b,
              r |-> rest % b]

\* floor(a * k / b) for a, k >= 0 and b > 0
MulDiv(a, k, b) == MulDivQR(a, k, b).q

\* a slip: the count is rounded up past the angle
degrees_to_count_up(m, degrees) ==
    IF degrees >= 0 THEN MulDiv(degrees, m.counts_per_revolution, 360) + 1
    ELSE -MulDiv(-degrees, m.counts_per_revolution, 360)

\* Motor.degrees_to_count: int(degrees / (360.0 / counts_per_revolution)),
\* the quotient truncated towards zero
degrees_to_count(m, degrees) ==
    IF degrees >= 0 THEN MulDiv(degrees, m.counts_per_revolution, 360)
    ELSE -MulDiv(-degrees, m.counts_per_revolution, 360)

\* a slip: the remainder keeps the sign of the count, as math.fmod's does
count_to_degrees_signed(m, count) ==
    [num |-> (IF count >= 0 THEN count % m.counts_per_revolution
              ELSE -((-count) % m.counts_per_revolution)) * 360,
     den |-> m.counts_per_revolution]

\* Motor.count_to_degrees: (count % counts_per_revolution) * (360.0 /
\* counts_per_revolution), as the fraction num / den of a degree
count_to_degrees(m, count) ==
    [num |-> (count % m.counts_per_revolution) * 360,
     den |-> m.counts_per_revolution]

\* a slip: the offset is not taken off the value read
position_degrees_no_offset(m, position_raw) ==
    count_to_degrees(m, position_raw)

\* Motor.get_position_degrees and Motor.get_goto_target_degrees, after the
\* exchange: count_to_degrees(raw - MotorPositionOffset)
position_degrees(m, position_raw) ==
    count_to_degrees(m, position_raw - MotorPositionOffset)

\* Motor.get_position_degrees: the inquiry
Motor_get_position_degrees(m) == <<Inq(InquirePosition, m.channel)>>

\* Motor.get_goto_target_degrees: the inquiry
Motor_get_goto_target_degrees(m) == <<Inq(InquireGotoTargetPosition, m.channel)>>

\* Motor.set_position_degrees
Motor_set_position_degrees(m, position_degrees_arg) ==
    IF m.counts_per_revolution = 0
    THEN <<Raise("ZeroDivisionError")>>
    ELSE <<Cmd(SetPosition, m.channel,
               from_int(degrees_to_count(m, position_degrees_arg) + MotorPositionOffset))>>

\* a slip: the calibration is asked for again
Motor_get_status_requery(m) ==
    <<Inq(InquireCountsPerRevolution, m.channel), Inq(InquireStatus, m.channel)>>

\* Motor.get_status: the inquiry
Motor_get_status(m) == <<Inq(InquireStatus, m.channel)>>

\* AzGti.set_aux_switch_on / set_aux_switch_off: TurnAuxSwitchOn / Off
AzGti_set_aux_switch(on) ==
    <<Cmd(SetAuxSwitchOnOff, Channel1, IF on THEN <<"1">> ELSE <<"0">>)>>

\* Motor.stop_motion
Motor_stop_motion(m) == <<Cmd(StopMotion, m.channel, << >>)>>

\* Motor.start_motion
Motor_start_motion(m) == <<Cmd(StartMotion, m.channel, << >>)>>

\* a slip: the mode is set without stopping the axis first
Motor_set_goto_mode_no_stop(m, movement_speed) ==
    <<Cmd(SetMotionMode, m.channel,
          IF movement_speed = "Slow" THEN <<"8", "0">> ELSE <<"0", "2">>)>>

\* Motor.set_goto_mode
Motor_set_goto_mode(m, movement_speed) ==
    Motor_stop_motion(m) \o
    <<Cmd(SetMotionMode, m.channel,
          IF movement_speed = "Slow" THEN <<"8", "0">> ELSE <<"0", "2">>)>>

\* Motor.set_goto_target_degrees
Motor_set_goto_target_degrees(m, target_degrees) ==
    IF m.counts_per_revolution = 0
    THEN <<Raise("ZeroDivisionError")>>
    ELSE <<Cmd(SetGotoTarget, m.channel,
               from_int(degrees_to_count(m, target_degrees) + MotorPositionOffset))>>

\* Motor.set_tracking_mode
Motor_set_tracking_mode(m, speed, direction) ==
    Motor_stop_motion(m) \o
    <<Cmd(SetMotionMode, m.channel,
          <<IF speed = "Fast" THEN "3" ELSE "1",
            IF direction = "CounterClockwise" THEN "1" ELSE "0">>)>>

\* a slip: a preset of 10 is rejected too
t1_preset_for_speed_strict(m, dps) ==
    IF m.counts_per_revolution = 0 \/ dps.num = 0
    THEN [raises |-> "ZeroDivisionError", value |-> 0]
    ELSE LET t1_preset == MulDiv(m.timer_interrupt_frequency * 360, dps.den,
                                 Abs(dps.num) * m.counts_per_revolution)
         IN  IF t1_preset <= 10
             THEN [raises |-> "MaximumSpeedExceeded", value |-> 0]
             ELSE IF t1_preset > 16777215
             THEN [raises |-> "MinimumSpeedExceeded", value |-> 0]
             ELSE [raises |-> "None", value |-> t1_preset]

\* Motor.t1_preset_for_speed: the exception it raises ("None" when it returns)
\* and the preset it returns;
\* counts_per_second = |dps / (360 / cpr)| = |num| * cpr / (360 * den),
\* t1_preset = int(timer_interrupt_frequency / counts_per_second)
t1_preset_for_speed(m, dps) ==
    IF m.counts_per_revolution = 0 \/ dps.num = 0
    THEN [raises |-> "ZeroDivisionError", value |-> 0]
    ELSE LET t1_preset == MulDiv(m.timer_interrupt_frequency * 360, dps.den,
                                 Abs(dps.num) * m.counts_per_revolution)
         IN  IF t1_preset < 10
             THEN [raises |-> "MaximumSpeedExceeded", value |-> 0]
             ELSE IF t1_preset > 16777215
             THEN [raises |-> "MinimumSpeedExceeded", value |-> 0]
             ELSE [raises |-> "None", value |-> t1_preset]

\* Motor.set_tracking_speed
Motor_set_tracking_speed(m, dps) ==
    LET t1_preset == t1_preset_for_speed(m, dps)
    IN  IF t1_preset.raises # "None"
        THEN <<Raise(t1_preset.raises)>>
        ELSE <<Cmd(SetStepPeriod, m.channel, from_int(t1_preset.value))>>

\* a slip: the direction is not derived from the sign of the speed
Motor_track_clockwise(m, dps) ==
    Motor_set_tracking_mode(m, "Slow", "Clockwise") \o
    Motor_set_tracking_speed(m, [num |-> Abs(dps.num), den |-> dps.den]) \o
    Motor_start_motion(m)

\* Motor.track
Motor_track(m, dps) ==
    Motor_set_tracking_mode(m, "Slow",
        IF dps.num >= 0 THEN "Clockwise" ELSE "CounterClockwise") \o
    Motor_set_tracking_speed(m, [num |-> Abs(dps.num), den |-> dps.den]) \o
    Motor_start_motion(m)

\* Motor.initialize: the two inquiries whose integers make the Motor
Motor_initialize(channel) ==
    <<Inq(InquireCountsPerRevolution, channel),
      Inq(InquireTimerInterruptFreq, channel)>>

\* AzGti._validate_is_comm: comm.send_command(InitializeBaseCommand)
validate_is_comm == <<Cmd(InitializationDone, BothChannels, << >>)>>

\* a slip: the motors are initialized before the handshake
wifi_mount_handshake_last ==
    Motor_initialize(Channel1) \o Motor_initialize(Channel2) \o validate_is_comm

\* AzGti.wifi_mount
wifi_mount ==
    validate_is_comm \o Motor_initialize(Channel1) \o Motor_initialize(Channel2)

\* AzGti.stop_motion
AzGti_stop_motion(mt) == Motor_stop_motion(mt.az) \o Motor_stop_motion(mt.dec)

\* AzGti.start_motion
AzGti_start_motion(mt) == Motor_start_motion(mt.az) \o Motor_start_motion(mt.dec)

\* AzGti.set_goto_mode
AzGti_set_goto_mode(mt, motion_speed) ==
    Motor_set_goto_mode(mt.az, motion_speed) \o Motor_set_goto_mode(mt.dec, motion_speed)

\* AzGti.set_goto_target_degrees
AzGti_set_goto_target_degrees(mt, position) ==
    AzGti_stop_motion(mt) \o
    Motor_set_goto_target_degrees(mt.az, position[1]) \o
    Motor_set_goto_target_degrees(mt.dec, position[2])

\* AzGti.goto up to its poll loop
AzGti_goto(mt, coordinate_degrees, motion_speed) ==
    AzGti_set_goto_mode(mt, motion_speed) \o
    AzGti_set_goto_target_degrees(mt, coordinate_degrees) \o
    AzGti_start_motion(mt)

\* AzGti.track
AzGti_track(mt, degrees_per_second) ==
    AzGti_stop_motion(mt) \o
    Motor_track(mt.az, degrees_per_second[1]) \o
    Motor_track(mt.dec, degrees_per_second[2])

\* a slip: the sampler's result is appended whether or not one was supplied
append_sample_always(list, supplied) == Append(list, Len(list) + 1)

\* goto's loop body: if sampling_function is not None:
\* samples.append(sampling_function()); the k-th invocation returns k
append_sample(list, supplied) ==
    IF supplied THEN Append(list, Len(list) + 1) ELSE list

\* bool(status & mask) for a mask of one bit
Masked(status, mask) == (status \div mask) % 2 = 1

\* a slip: the speed is read from bit 7
MotorStatus_speed_bit7(status) ==
    [motion_mode |-> IF Masked(status, 16) THEN "Tracking" ELSE "GoTo",
     movement_direction |-> IF Masked(status, 32) THEN "CounterClockwise"
                            ELSE "Clockwise",
     movement_speed |-> IF Masked(status, 128) THEN "Fast" ELSE "Slow",
     is_running |-> Masked(status, 1),
     is_blocked |-> Masked(status, 2),
     is_initialized |-> Masked(status, 256),
     switch_position |-> Masked(status, 512)]

\* Motor.get_status, after the exchange: the MotorStatus made of the status
\* value (masks 0x010, 0x020, 0x040, 0x001, 0x002, 0x100, 0x200)
MotorStatus(status) ==
    [motion_mode |-> IF Masked(status, 16) THEN "Tracking" ELSE "GoTo",
     movement_direction |-> IF Masked(status, 32) THEN "CounterClockwise"
                            ELSE "Clockwise",
     movement_speed |-> IF Masked(status, 64) THEN "Fast" ELSE "Slow",
     is_running |-> Masked(status, 1),
     is_blocked |-> Masked(status, 2),
     is_initialized |-> Masked(status, 256),
     switch_position |-> Masked(status, 512)]

\* MotorStatus.is_running: bool(status & 0x001)
is_running(status) == status % 2 = 1

\* a slip: only the first motor is asked
after_status_first_only(at, runs) ==
    IF runs THEN "sleep" ELSE "returned"

\* AzGti.is_running inside goto's while: any() over [azimuth, declination]
\* is True at the first motor whose status has the running bit, and the loop
\* body follows; it asks the declination motor when the azimuth motor does
\* not run, and is False, ending the loop, when that one does not run either
after_status(at, runs) ==
    IF runs THEN "sleep"
    ELSE IF at = "poll_az" THEN "poll_dec" ELSE "returned"

\* the Motor made by Motor.initialize
Motor(channel, counts_per_revolution, timer_interrupt_frequency) ==
    [channel |-> channel, counts_per_revolution |-> counts_per_revolution,
     timer_interrupt_frequency |-> timer_interrupt_frequency]

\* an operation called on no motor, with no angle
NoArg == [motor |-> "None", degrees |-> 0, speed |-> [num |-> 0, den |-> 1],
          speeds |-> <<[num |-> 0, den |-> 1], [num |-> 0, den |-> 1]>>]
\* the motor and the angle, or the motor and the speed, of a call
Arg(name, degrees) == [NoArg EXCEPT !.motor = name, !.degrees = degrees]
ArgSpeed(name, dps) == [NoArg EXCEPT !.motor = name, !.speed = dps]
\* the pair of speeds of AzGti.track
ArgSpeeds(degrees_per_second) == [NoArg EXCEPT !.speeds = degrees_per_second]
\* no angle returned
NoValue == [num |-> 0, den |-> 0]
\* no set_... call just before
NoCall == [op |-> "None", channel |-> "", degrees |-> 0, payload |-> << >>]

\* no AzGti object
NoMount == [made |-> FALSE, az |-> Motor(Channel1, 0, 0), dec |-> Motor(Channel2, 0, 0)]

-----------------------------------------------------------------------------
(* The idle values of each group of variables *)

\* the lock held by nobody
NoThread == 0
\* no response held
NoResult == [req |-> 0, bytes |-> << >>]
\* the value of a Python function that falls off its end
ReturnedNone == [req |-> 0, bytes |-> <<"None">>]

CodecIdle ==
    /\ cMode = "off" /\ cIn = << >> /\ cData = << >> /\ cInt = -1 /\ cStep = 0
    /\ cKind = "None" /\ cCode = "None"

Threads == 1..NumThreads

TransportIdle ==
    /\ lock = NoThread
    /\ pc = [t \in Threads |-> "idle"]
    /\ retries = [t \in Threads |-> 0]
    /\ sends = [t \in Threads |-> 0]
    /\ cur = [t \in Threads |-> 0]
    /\ result = [t \in Threads |-> NoResult]
    /\ err = [t \in Threads |-> "None"]
    /\ calls = 0
    /\ nextId = 0
    /\ pending = {}
    /\ sockbuf = << >>
    /\ replies = 0

MountIdle ==
    /\ op = "None" /\ mpc = "idle" /\ todo = << >> /\ wire = << >> /\ merr = "None"
    /\ mount = NoMount /\ acc = << >>
    /\ running = [c \in {Channel1, Channel2} |-> FALSE]
    /\ samples = << >> /\ sampling = FALSE /\ iter = 0 /\ outcomes = << >>
    /\ arg = NoArg /\ ret = NoValue /\ prev = NoCall

-----------------------------------------------------------------------------
(* SpecCodec: the codec functions, the response parser and the angle       *)
(* conversions applied to bounded inputs                                    *)

HexSample == {"0", "1", "A", "F"}
EvenStrings == UNION {[1..(2 * k) -> HexSample] : k \in 0..MaxPairs}

ByteSample == {0, 1, 18, 128, 171, 255}
Values == {65536 * b2 + 256 * b1 + b0 : b2 \in ByteSample, b1 \in ByteSample, b0 \in ByteSample}

\* responses handed to the parser: nothing at all, and a header byte, up to
\* MaxPayload bytes and the terminator
HeaderSample == {ResponseHeader, ErrorMessageHeader, "X"}
PayloadSample == {"0", "2", "9", "A"}
ResponseSample ==
    { << >> } \cup
    { <<h>> \o p \o <<CR>> :
        h \in HeaderSample, p \in UNION {[1..n -> PayloadSample] : n \in 0..MaxPayload} }

\* calibrations, angles (whole degrees of one turn) and raw position values
\* (counts within MaxTurns revolutions of 0, and the ends of the 24-bit
\* field) given to the conversions
CprSample == {7, 200, 360, 1000}
DegreeGrid == 0..359
RawRange(cpr) ==
    {MotorPositionOffset + c : c \in (-MaxTurns * cpr - 1)..(MaxTurns * cpr + 1)}
    \cup {0, 16777215}

\* the status values given to the decoder: ten bits
StatusValues == 0..1023

InitCodec ==
    /\ \/ cMode = "transcode" /\ cIn \in EvenStrings /\ cData = cIn
       \/ cMode = "roundtrip" /\ cIn \in Values /\ cData = << >>
       \/ cMode = "parse" /\ cIn \in ResponseSample /\ cData = << >>
       \/ cMode = "convert" /\ cIn \in CprSample \X DegreeGrid /\ cData = << >>
       \/ /\ cMode = "position"
          /\ \E cpr \in CprSample : cIn \in {cpr} \X RawRange(cpr)
          /\ cData = << >>
       \/ cMode = "status" /\ cIn \in StatusValues /\ cData = << >>
    /\ cInt = -1
    /\ cStep = 0
    /\ cKind = "None"
    /\ cCode = "None"
    /\ TransportIdle
    /\ MountIdle

\* transcode applied to what the harness holds
ApplyTranscode ==
    /\ cMode = "transcode"
    /\ cStep < 2
    /\ cData' = transcode(cData)
    /\ cStep' = cStep + 1
    /\ UNCHANGED <<cMode, cIn, cInt, cKind, cCode, transportVars, mountVars>>

\* DataSegment.from_int(v)
FromInt ==
    /\ cMode = "roundtrip"
    /\ cStep = 0
    /\ cData' = from_int(cIn)
    /\ cStep' = 1
    /\ UNCHANGED <<cMode, cIn, cInt, cKind, cCode, transportVars, mountVars>>

\* the segment serialized to wire bytes as the payload of a response message
Serialize ==
    /\ cMode = "roundtrip"
    /\ cStep = 1
    /\ cData' = MotorControllerMessage_to_bytes(cData)
    /\ cStep' = 2
    /\ UNCHANGED <<cMode, cIn, cInt, cKind, cCode, transportVars, mountVars>>

\* DataSegment.from_bytes(wire bytes)
Parse ==
    /\ cMode = "roundtrip"
    /\ cStep = 2
    /\ cData' = from_bytes(cData)
    /\ cStep' = 3
    /\ UNCHANGED <<cMode, cIn, cInt, cKind, cCode, transportVars, mountVars>>

\* DataSegment.to_int()
ToInt ==
    /\ cMode = "roundtrip"
    /\ cStep = 3
    /\ cInt' = IF to_int_raises(cData) THEN -1 ELSE to_int(cData)
    /\ cStep' = 4
    /\ UNCHANGED <<cMode, cIn, cData, cKind, cCode, transportVars, mountVars>>

\* CommunicationsModule._parse_binary_response(response)
ParseResponse ==
    /\ cMode = "parse"
    /\ cStep = 0
    /\ LET parsed == parse_binary_response(cIn)
       IN  /\ cKind' = parsed.kind
           /\ cData' = parsed.data
    /\ cStep' = 1
    /\ UNCHANGED <<cMode, cIn, cInt, cCode, transportVars, mountVars>>

\* the caller asks the MotorControllerError it caught for its error_code()
ErrorCodeLookup ==
    /\ cMode = "parse"
    /\ cStep = 1
    /\ cKind = "MotorControllerError"
    /\ cCode' = error_code(cData)
    /\ cStep' = 2
    /\ UNCHANGED <<cMode, cIn, cData, cInt, cKind, transportVars, mountVars>>

\* the Motor whose conversions the harness applies
HarnessMotor == Motor(Channel1, cIn[1], 0)

\* Motor.degrees_to_count(d)
DegreesToCount ==
    /\ cMode = "convert"
    /\ cStep = 0
    /\ cInt' = degrees_to_count(HarnessMotor, cIn[2])
    /\ cStep' = 1
    /\ UNCHANGED <<cMode, cIn, cData, cKind, cCode, transportVars, mountVars>>

\* Motor.count_to_degrees(count): the angle as <<num, den>>
CountToDegrees ==
    /\ cMode = "convert"
    /\ cStep = 1
    /\ LET degrees == count_to_degrees(HarnessMotor, cInt)
       IN  cData' = <<degrees.num, degrees.den>>
    /\ cStep' = 2
    /\ UNCHANGED <<cMode, cIn, cInt, cKind, cCode, transportVars, mountVars>>

\* what get_position_degrees / get_goto_target_degrees return for the raw
\* value read: the angle as <<num, den>>
PositionDegrees ==
    /\ cMode = "position"
    /\ cStep = 0
    /\ LET degrees == position_degrees(HarnessMotor, cIn[2])
       IN  cData' = <<degrees.num, degrees.den>>
    /\ cStep' = 1
    /\ UNCHANGED <<cMode, cIn, cInt, cKind, cCode, transportVars, mountVars>>

\* Motor.get_status decodes the status value read: the fields of the
\* MotorStatus, in the order of its constructor
DecodeStatus ==
    /\ cMode = "status"
    /\ cStep = 0
    /\ LET s == MotorStatus(cIn)
       IN  cData' = <<s.motion_mode, s.movement_direction, s.movement_speed,
                      s.is_running, s.is_blocked, s.is_initialized,
                      s.switch_position>>
    /\ cStep' = 1
    /\ UNCHANGED <<cMode, cIn, cInt, cKind, cCode, transportVars, mountVars>>

NextCodec ==
    \/ ApplyTranscode \/ FromInt \/ Serialize \/ Parse \/ ToInt
    \/ ParseResponse \/ ErrorCodeLookup
    \/ DegreesToCount \/ CountToDegrees \/ PositionDegrees
    \/ DecodeStatus

SpecCodec == InitCodec /\ [][NextCodec]_vars

\* C9: transcode is an involution on even-length inputs: applying it twice to
\* a hex-ASCII byte string of length 0, 2, 4 or 6 gives the string back, and
\* applying it once reverses the order of the 2-character groups.
C9_TranscodeInvolution ==
    (cMode = "transcode" /\ Len(cIn) % 2 = 0) =>
        /\ cStep = 2 => cData = cIn
        /\ cStep = 1 =>
              /\ Len(cData) = Len(cIn)
              /\ \A k \in 1..(Len(cIn) \div 2) :
                    SubSeq(cData, 2 * k - 1, 2 * k) =
                        SubSeq(cIn, Len(cIn) - 2 * k + 1, Len(cIn) - 2 * k + 2)

\* three distinct groups transcoded twice
C9_Witness ==
    /\ cMode = "transcode"
    /\ cIn = <<"0", "1", "A", "F", "1", "0">>
    /\ cStep = 2
    /\ cData = cIn

C11_ParseByFirstByte ==
    (cMode = "parse" /\ cStep >= 1) =>
        /\ (cIn # << >> /\ cIn[1] = "=") =>
              /\ cKind = "MotorControllerMessage"
              /\ cData = transcode(SubSeq(cIn, 2, Len(cIn) - 1))
        /\ (cIn # << >> /\ cIn[1] = "!") =>
              /\ cKind = "MotorControllerError"
              /\ cData = transcode(SubSeq(cIn, 2, Len(cIn) - 1))
        /\ (cIn = << >> \/ cIn[1] \notin {"=", "!"}) => cKind = "TypeError"
        /\ (cIn = <<"!", "2", CR>> /\ cStep = 2) => cCode = "MotorNotStopped"
        /\ (cIn = <<"=", "0", "2", "9", "A", CR>>) => cData = <<"9", "A", "0", "2">>

\* !2\r has been parsed and its code read
C11_Witness ==
    /\ cMode = "parse"
    /\ cIn = <<"!", "2", CR>>
    /\ cStep = 2
    /\ cKind = "MotorControllerError"
    /\ cCode = "MotorNotStopped"

\* C12: an error response whose code is not an ErrorCode value is reported as
\* a protocol error: no MotorControllerError is raised with a code outside
\* the ErrorCode set.
C12_UnknownCodeIsProtocolError ==
    (cMode = "parse" /\ cStep >= 1 /\ cKind = "MotorControllerError") =>
        \E e \in ErrorCode : e[1] = cData

\* C13: a success response whose payload, the bytes between the header and
\* the terminator, has odd length is rejected: it gives no message.
C13_OddPayloadRejected ==
    (cMode = "parse" /\ cStep >= 1 /\ Len(cIn) >= 2 /\ cIn[1] = "="
        /\ (Len(cIn) - 2) % 2 = 1) => cKind # "MotorControllerMessage"

\* C18: for every whole angle d in [0, 360), count_to_degrees(
\* degrees_to_count(d)) = num / den differs from d by less than one count's
\* worth of degrees, 360 / counts_per_revolution (den is
\* counts_per_revolution, so |d * den - num| < 360).
C18_QuantizationError ==
    (cMode = "convert" /\ cStep = 2) =>
        /\ cData[2] = cIn[1]
        /\ Abs(cIn[2] * cData[2] - cData[1]) < 360

\* 91 degrees at 200 counts per revolution has come back as 90 degrees (count
\* 50)
C18_Witness ==
    /\ cMode = "convert"
    /\ cIn = <<200, 91>>
    /\ cStep = 2
    /\ cInt = 50
    /\ cData = <<18000, 200>>

\* C19: count_to_degrees gives an angle num / den in [0, 360) for every
\* count, negative counts and counts of more than one revolution included,
\* so get_position_degrees and get_goto_target_degrees return an angle in
\* [0, 360) whatever raw value the device reports.
C19_CanonicalAngle ==
    (cMode = "position" /\ cStep = 1) =>
        /\ cData[2] > 0
        /\ cData[1] >= 0
        /\ cData[1] < 360 * cData[2]

\* the raw value 0x7FFFFF (count -1) at 200 counts per revolution has come
\* back as 358.2 degrees
C19_Witness ==
    /\ cMode = "position"
    /\ cIn = <<200, MotorPositionOffset - 1>>
    /\ cStep = 1
    /\ cData = <<199 * 360, 200>>

\* bit k of a value: the value's remainder by 2^(k+1) reaches 2^k
BitSet(value, k) == value % (2 ^ (k + 1)) >= 2 ^ k

\* C22: get_status decodes every status value in 0..0x3FF by fixed bits:
\* is_running is bit 0, is_blocked bit 1, the motion mode Tracking if bit 4
\* else GoTo, the direction CounterClockwise if bit 5 else Clockwise, the
\* speed Fast if bit 6 else Slow, is_initialized bit 8 and the switch
\* position bit 9; no field depends on another bit.
C22_StatusBits ==
    (cMode = "status" /\ cStep = 1) =>
        /\ cData[1] = (IF BitSet(cIn, 4) THEN "Tracking" ELSE "GoTo")
        /\ cData[2] = (IF BitSet(cIn, 5) THEN "CounterClockwise" ELSE "Clockwise")
        /\ cData[3] = (IF BitSet(cIn, 6) THEN "Fast" ELSE "Slow")
        /\ cData[4] = BitSet(cIn, 0)
        /\ cData[5] = BitSet(cIn, 1)
        /\ cData[6] = BitSet(cIn, 8)
        /\ cData[7] = BitSet(cIn, 9)

\* the status 0x2F1 has been decoded: running, not blocked, tracking,
\* counter-clockwise, fast, not initialized, switch set
C22_Witness ==
    /\ cMode = "status"
    /\ cIn = 753
    /\ cStep = 1
    /\ cData = <<"Tracking", "CounterClockwise", "Fast", TRUE, FALSE, FALSE, TRUE>>

-----------------------------------------------------------------------------
(* SpecTransport: threads calling send_command on one UdpCommunicationsModule *)
(* over a network that may lose a datagram, against a peer that answers the   *)
(* datagrams it received in their order, each at most once and at a time of   *)
(* its choosing (so possibly after the attempt that sent it has timed out).   *)

MaxRetries == 3

\* what the peer may answer: a success, a controller error, bad framing
PeerAnswers == { <<ResponseHeader, CR>>,
                 <<ErrorMessageHeader, "2", CR>>,
                 <<"X", CR>> }

InitTransport == TransportIdle /\ CodecIdle /\ MountIdle

\* a slip: no mutual exclusion around the attempt
LockAlwaysFree == TRUE

\* threading.Lock: acquire succeeds when no thread holds the lock
LockFree == lock = NoThread

\* a slip: the decorator retries on every exception
retry_catches_any(e) == TRUE

\* @retry(SynscanSocketTimeoutError): the exceptions the decorator catches
retry_catches(e) == e = "SynscanSocketTimeoutError"

\* a slip: the retry budget is tested with > instead of >=
retries_exhausted_late(r) == r > MaxRetries

\* func_with_retries: if _retries >= max_retries: raise
retries_exhausted(r) == r >= MaxRetries

\* a slip: the caught exception is not counted (_retries += 1 is missing)
AfterException_uncounted(t, e) ==
    IF ~retry_catches(e)
    THEN /\ pc' = [pc EXCEPT ![t] = "raised"]
         /\ err' = [err EXCEPT ![t] = e]
         /\ UNCHANGED <<retries, result>>
    ELSE /\ pc' = [pc EXCEPT ![t] = "lock"]
         /\ UNCHANGED <<retries, err, result>>

\* func_with_retries after f raised e in thread t: an exception the decorator
\* does not catch propagates; one it catches counts as a retry, and is raised
\* again once the budget is spent; otherwise the while loop runs f again, or
\* ends (and the function returns None) when its test fails
AfterException(t, e) ==
    IF ~retry_catches(e)
    THEN /\ pc' = [pc EXCEPT ![t] = "raised"]
         /\ err' = [err EXCEPT ![t] = e]
         /\ UNCHANGED <<retries, result>>
    ELSE /\ retries' = [retries EXCEPT ![t] = @ + 1]
         /\ IF retries_exhausted(retries[t] + 1)
            THEN /\ pc' = [pc EXCEPT ![t] = "raised"]
                 /\ err' = [err EXCEPT ![t] = e]
                 /\ UNCHANGED result
            ELSE IF retries[t] + 1 < MaxRetries
            THEN /\ pc' = [pc EXCEPT ![t] = "lock"]
                 /\ UNCHANGED <<err, result>>
            ELSE /\ pc' = [pc EXCEPT ![t] = "returned"]
                 /\ result' = [result EXCEPT ![t] = ReturnedNone]
                 /\ UNCHANGED err

\* a with block that released the lock only when its body ended normally
ReleaseLock_on_return(e) ==
    IF e = "None" THEN lock' = NoThread ELSE UNCHANGED lock

\* _make_call: the with self.lock block is left, by the return inside it
\* (e = "None") or by the exception e raised inside it: the lock is released
ReleaseLock(e) == lock' = NoThread

\* send_command is called: func_with_retries starts with _retries = 0 and
\* enters the loop
Call(t) ==
    /\ pc[t] \in {"idle", "returned", "raised"}
    /\ calls < MaxCalls
    /\ calls' = calls + 1
    /\ retries' = [retries EXCEPT ![t] = 0]
    /\ sends' = [sends EXCEPT ![t] = 0]
    /\ cur' = [cur EXCEPT ![t] = 0]
    /\ result' = [result EXCEPT ![t] = NoResult]
    /\ err' = [err EXCEPT ![t] = "None"]
    /\ pc' = [pc EXCEPT ![t] = "lock"]
    /\ UNCHANGED <<lock, nextId, pending, sockbuf, replies, codecVars, mountVars>>

\* _make_call: with self.lock
Acquire(t) ==
    /\ pc[t] = "lock"
    /\ LockFree
    /\ lock' = t
    /\ pc' = [pc EXCEPT ![t] = "sendto"]
    /\ UNCHANGED <<retries, sends, cur, result, err, calls, nextId, pending,
                   sockbuf, replies, codecVars, mountVars>>

\* _make_call: self.socket.sendto(...) puts the datagram on the network
Sendto(t) ==
    /\ pc[t] = "sendto"
    /\ nextId < MaxDatagrams
    /\ nextId' = nextId + 1
    /\ pending' = pending \cup {nextId + 1}
    /\ cur' = [cur EXCEPT ![t] = nextId + 1]
    /\ sends' = [sends EXCEPT ![t] = @ + 1]
    /\ pc' = [pc EXCEPT ![t] = "select"]
    /\ UNCHANGED <<lock, retries, result, err, calls, sockbuf, replies,
                   codecVars, mountVars>>

\* _make_call: self.socket.sendto(...) raises OSError; the with block
\* releases the lock and the exception reaches func_with_retries
SendtoFails(t) ==
    /\ pc[t] = "sendto"
    /\ sends' = [sends EXCEPT ![t] = @ + 1]
    /\ ReleaseLock("OSError")
    /\ AfterException(t, "OSError")
    /\ UNCHANGED <<cur, calls, nextId, pending, sockbuf, replies, codecVars, mountVars>>

\* _make_call: select reports the socket readable; recvfrom takes the first
\* queued datagram, the lock is released, and send_command parses the bytes.
\* The bytes of a reply are the peer's choice; they are drawn here, where they
\* are first seen.
SelectReady(t, bytes) ==
    /\ pc[t] = "select"
    /\ sockbuf # << >>
    /\ LET response == [req |-> Head(sockbuf), bytes |-> bytes]
           parsed == parse_binary_response(bytes)
       IN  /\ sockbuf' = Tail(sockbuf)
           /\ ReleaseLock("None")
           /\ IF parsed.kind = "MotorControllerMessage"
              THEN /\ pc' = [pc EXCEPT ![t] = "returned"]
                   /\ result' = [result EXCEPT ![t] = response]
                   /\ UNCHANGED err
              ELSE /\ pc' = [pc EXCEPT ![t] = "raised"]
                   /\ err' = [err EXCEPT ![t] = parsed.kind]
                   /\ result' = [result EXCEPT ![t] = response]
    /\ UNCHANGED <<retries, sends, cur, calls, nextId, pending, replies,
                   codecVars, mountVars>>

\* _make_call: select returns empty after timeout_in_seconds; the attempt
\* raises SynscanSocketTimeoutError and the with block releases the lock
SelectTimeout(t) ==
    /\ pc[t] = "select"
    /\ sockbuf = << >>
    /\ ReleaseLock("SynscanSocketTimeoutError")
    /\ AfterException(t, "SynscanSocketTimeoutError")
    /\ UNCHANGED <<sends, cur, calls, nextId, pending, sockbuf, replies,
                   codecVars, mountVars>>

\* _make_call: select reported the socket readable and recvfrom raises
\* OSError, taking no datagram; the with block releases the lock and the
\* exception reaches func_with_retries
RecvfromFails(t) ==
    /\ pc[t] = "select"
    /\ sockbuf # << >>
    /\ ReleaseLock("OSError")
    /\ AfterException(t, "OSError")
    /\ UNCHANGED <<sends, cur, calls, nextId, pending, sockbuf, replies,
                   codecVars, mountVars>>

\* the peer answers the oldest datagram it has received and not answered
PeerReply(id) ==
    /\ id \in pending
    /\ \A other \in pending : id <= other
    /\ pending' = pending \ {id}
    /\ sockbuf' = Append(sockbuf, id)
    /\ replies' = replies + 1
    /\ UNCHANGED <<lock, pc, retries, sends, cur, result, err, calls, nextId,
                   codecVars, mountVars>>

\* the network loses the oldest datagram on its way to the peer
Lose(id) ==
    /\ id \in pending
    /\ \A other \in pending : id <= other
    /\ pending' = pending \ {id}
    /\ UNCHANGED <<lock, pc, retries, sends, cur, result, err, calls, nextId,
                   sockbuf, replies, codecVars, mountVars>>

NextTransport ==
    \/ \E t \in Threads : Call(t)
    \/ \E t \in Threads : Acquire(t)
    \/ \E t \in Threads : Sendto(t)
    \/ \E t \in Threads : SendtoFails(t)
    \/ \E t \in Threads, bytes \in PeerAnswers : SelectReady(t, bytes)
    \/ \E t \in Threads : SelectTimeout(t)
    \/ \E t \in Threads : RecvfromFails(t)
    \/ \E id \in 1..MaxDatagrams : PeerReply(id)
    \/ \E id \in 1..MaxDatagrams : Lose(id)

SpecTransport == InitTransport /\ [][NextTransport]_vars

\* a thread's own steps inside send_command
ThreadStep(t) ==
    \/ Acquire(t)
    \/ Sendto(t)
    \/ SendtoFails(t)
    \/ \E bytes \in PeerAnswers : SelectReady(t, bytes)
    \/ SelectTimeout(t)
    \/ RecvfromFails(t)

\* the same, each thread scheduled fairly: a thread that can take a step of
\* send_command eventually takes one (select returns after
\* timeout_in_seconds at the latest, and a released lock is acquired)
SpecTransportFair == SpecTransport /\ \A t \in Threads : WF_vars(ThreadStep(t))

NonTimeoutErrors == {"OSError", "MotorControllerError", "TypeError"}

\* C1: while the peer has answered nothing, a send_command call never returns
\* a value and never makes more than 3 sendto calls, and when it raises the
\* timeout error it has sent the request exactly 3 times (the retry limit).
C1_NoAnswerThreeSends ==
    replies = 0 =>
        \A t \in Threads :
            /\ pc[t] # "returned"
            /\ sends[t] <= MaxRetries
            /\ (pc[t] = "raised" /\ err[t] = "SynscanSocketTimeoutError")
                  => sends[t] = MaxRetries
            /\ (pc[t] = "raised" /\ err[t] # "OSError")
                  => err[t] = "SynscanSocketTimeoutError"

\* a call has raised the timeout error after 3 datagrams, none answered
C1_Witness ==
    /\ replies = 0
    /\ \E t \in Threads :
          /\ pc[t] = "raised"
          /\ err[t] = "SynscanSocketTimeoutError"
          /\ sends[t] = 3

\* C2: at most one thread is inside an exchange attempt (between acquiring the
\* lock and its receive-or-timeout) at any time, and that thread holds the
\* lock; so no thread sends while another's datagram awaits its reply.
C2_SingleFlight ==
    \A t, u \in Threads :
        /\ pc[t] \in {"sendto", "select"} => lock = t
        /\ (t # u /\ pc[t] \in {"sendto", "select"}) => pc[u] \notin {"sendto", "select"}

\* one thread waits for its reply while another waits for the lock
C2_Witness ==
    \E t, u \in Threads : t # u /\ pc[t] = "select" /\ pc[u] = "lock"

\* C3: every response an exchange returns is the peer's reply to the datagram
\* sent in that same attempt.
C3_ReplyMatchesRequest ==
    \A t \in Threads : pc[t] = "returned" => result[t].req = cur[t]

InCall(t) == pc[t] \in {"lock", "sendto", "select"}

\* C23: a send_command call whose first k - 1 attempts timed out and whose
\* k-th attempt read a reply (1 <= k <= 3) has made exactly k sendto calls
\* and returns that reply, or raises the error that reply parses to; no call
\* makes more than 3 sendto calls; and every call ends, by returning or by
\* raising: a thread makes finitely many calls, so from some point on no
\* thread is inside one.
C23_BoundedRetry ==
    /\ [](\A t \in Threads :
            /\ sends[t] <= MaxRetries
            /\ retries[t] <= MaxRetries
            /\ (pc[t] \in {"returned", "raised"} /\ result[t] # NoResult) =>
                  /\ result[t] # ReturnedNone
                  /\ retries[t] < MaxRetries
                  /\ sends[t] = retries[t] + 1
                  /\ LET parsed == parse_binary_response(result[t].bytes)
                     IN  IF parsed.kind = "MotorControllerMessage"
                         THEN pc[t] = "returned"
                         ELSE pc[t] = "raised" /\ err[t] = parsed.kind
            /\ pc[t] = "returned" => result[t] # NoResult)
    /\ <>[](\A t \in Threads : ~InCall(t))

\* C23 as stated: a call whose attempt read a reply returns that reply
C23_ReplyReturned ==
    \A t \in Threads :
        (pc[t] \in {"returned", "raised"} /\ result[t] # NoResult) =>
            pc[t] = "returned"

\* a call has returned the reply read by its third attempt, after two
\* timeouts
C23_Witness ==
    \E t \in Threads :
        /\ pc[t] = "returned"
        /\ retries[t] = 2
        /\ sends[t] = 3
        /\ result[t].bytes = <<ResponseHeader, CR>>

\* C24: the lock is held by a thread exactly while that thread is inside the
\* with block of one attempt (about to send, or waiting in select): it is not
\* held by a thread waiting to start an attempt or a retry, nor by one whose
\* send_command has returned or raised, whatever ended the attempt; so when
\* no thread is inside an attempt the lock is free for a waiting thread.
C24_LockScopedToAttempt ==
    /\ \A t \in Threads : lock = t <=> pc[t] \in {"sendto", "select"}
    /\ lock \in Threads \cup {NoThread}
    /\ (\A t \in Threads : pc[t] \notin {"sendto", "select"}) =>
          \A u \in Threads : pc[u] = "lock" => ENABLED Acquire(u)

\* one thread's attempt timed out and it waits to retry, another thread's
\* call raised a fault of its attempt, and the lock is free
C24_Witness ==
    \E t, u \in Threads :
        /\ pc[t] = "lock" /\ retries[t] >= 1
        /\ pc[u] = "raised" /\ err[u] = "OSError"
        /\ lock = NoThread

-----------------------------------------------------------------------------
(* SpecMount: one caller running wifi_mount, goto, track and the position,    *)
(* goto-target, status, motion and aux-switch operations against a device.    *)
(* An exchange is one send_command call: the device's reply is read and       *)
(* parsed, or no reply comes and the transport's retries end in the timeout   *)
(* error.                                                                     *)

Channels == {Channel1, Channel2}

\* what the device may report as calibration
CountsSample == {200, 360}
FreqSample == {20000}
\* arguments of the operations
CoordSample == {0, 90}
SpeedSample == { [num |-> 1, den |-> 1], [num |-> -1, den |-> 1],
                 [num |-> 4000, den |-> 1], [num |-> 1, den |-> 1000],
                 [num |-> 0, den |-> 1],
                 [num |-> 3600, den |-> 1], [num |-> 72000, den |-> 33554431],
                 [num |-> 36000, den |-> 16777216] }
\* angles given to the set_... operations of a motor
DegreeSample == {0, 1, 90, 359, 8388608, -8388609}
\* raw values the device may report as a position or a goto target
RawSample == {0, 8388607, 8388608, 8389000, 16777215}

GetOps == {"Motor.get_position_degrees", "Motor.get_goto_target_degrees"}
SetOps == {"Motor.set_position_degrees", "Motor.set_goto_target_degrees"}

\* the motor of the mount an operation is called on
MotorOf(name) == IF name = "az" THEN mount.az ELSE mount.dec

\* a device that stores the value it was sent and echoes it: its reply to an
\* inquiry that follows the set_... call of the same register and channel
EchoOf(call, step) ==
    IF /\ \/ call.op = "Motor.set_position_degrees" /\ step.command = InquirePosition
          \/ call.op = "Motor.set_goto_target_degrees"
                /\ step.command = InquireGotoTargetPosition
       /\ call.channel = step.channel
       /\ Len(call.payload) = 6
       /\ ~to_int_raises(call.payload)
    THEN {MotorControllerMessage_to_bytes(call.payload)}
    ELSE {}

\* the status word the device reports for a channel: bit 0 running, bit 8
\* initialized
StatusWord(channel) == 256 + (IF running[channel] THEN 1 ELSE 0)

\* the replies the device may give to a command: an acknowledgement, a
\* controller error, bytes that are no valid framing, and for an inquiry its
\* value
Responses(step) ==
    { <<ResponseHeader, CR>>, <<ErrorMessageHeader, "2", CR>>, <<"X", CR>> }
    \cup (IF step.command = InquireCountsPerRevolution
          THEN {MotorControllerMessage_to_bytes(from_int(c)) : c \in CountsSample}
          ELSE IF step.command = InquireTimerInterruptFreq
          THEN {MotorControllerMessage_to_bytes(from_int(f)) : f \in FreqSample}
          ELSE IF step.command = InquireStatus
          THEN {MotorControllerMessage_to_bytes(from_int(StatusWord(step.channel)))}
          ELSE IF step.command \in {InquirePosition, InquireGotoTargetPosition}
          THEN {MotorControllerMessage_to_bytes(from_int(r)) : r \in RawSample}
               \cup EchoOf(prev, step)
          ELSE {})

\* send_command(step) with the device's reply: the exception raised ("None"
\* when it returns) and the integer read from the payload where the caller
\* reads one
Exchange(step, response) ==
    LET parsed == parse_binary_response(response)
    IN  IF parsed.kind # "MotorControllerMessage"
        THEN [raises |-> parsed.kind, value |-> 0]
        ELSE IF step.use = "ignore"
        THEN [raises |-> "None", value |-> 0]
        ELSE IF to_int_raises(parsed.data)
        THEN [raises |-> "ValueError", value |-> 0]
        ELSE [raises |-> "None", value |-> to_int(parsed.data)]

\* the device obeys an acknowledged StartMotion: the axis runs
DeviceAfter(step, ok) ==
    IF ok /\ step.command = StartMotion /\ step.channel \in Channels
    THEN [running EXCEPT ![step.channel] = TRUE]
    ELSE running

InitMount == MountIdle /\ CodecIdle /\ TransportIdle

Finished == mpc \in {"returned", "raised"}

\* the call is over: the caller has taken the result or the exception, and
\* remembers the set_... call that has just returned
CallOver ==
    /\ Finished
    /\ op' = "None"
    /\ mpc' = "idle"
    /\ wire' = << >>
    /\ merr' = "None"
    /\ acc' = << >>
    /\ samples' = << >>
    /\ sampling' = FALSE
    /\ iter' = 0
    /\ outcomes' = << >>
    /\ arg' = NoArg
    /\ ret' = NoValue
    /\ prev' = IF op \in SetOps /\ mpc = "returned"
               THEN [op |-> op, channel |-> wire[1].channel,
                     degrees |-> arg.degrees, payload |-> wire[1].payload]
               ELSE NoCall
    /\ UNCHANGED <<todo, mount, running, codecVars, transportVars>>

\* the caller starts an operation with the steps of its code
Start(operation, steps, sampler, argument) ==
    /\ mpc = "idle"
    /\ op' = operation
    /\ mpc' = "run"
    /\ todo' = steps
    /\ wire' = << >>
    /\ merr' = "None"
    /\ acc' = << >>
    /\ samples' = << >>
    /\ sampling' = sampler
    /\ iter' = 0
    /\ outcomes' = << >>
    /\ arg' = argument
    /\ ret' = NoValue
    /\ prev' = IF operation \in GetOps THEN prev ELSE NoCall
    /\ UNCHANGED <<mount, running, codecVars, transportVars>>

StartWifiMount ==
    /\ ~mount.made
    /\ Start("wifi_mount", wifi_mount, FALSE, NoArg)

StartGoto(coordinate_degrees, motion_speed, sampler) ==
    /\ mount.made
    /\ Start("goto", AzGti_goto(mount, coordinate_degrees, motion_speed), sampler,
             NoArg)

StartTrack(degrees_per_second) ==
    /\ mount.made
    /\ Start("AzGti.track", AzGti_track(mount, degrees_per_second), FALSE,
             ArgSpeeds(degrees_per_second))

StartMotorTrack(dps) ==
    /\ mount.made
    /\ Start("Motor.track", Motor_track(mount.az, dps), FALSE, ArgSpeed("az", dps))

StartSetPosition(name, degrees) ==
    /\ mount.made
    /\ Start("Motor.set_position_degrees",
             Motor_set_position_degrees(MotorOf(name), degrees), FALSE,
             Arg(name, degrees))

StartSetGotoTarget(name, degrees) ==
    /\ mount.made
    /\ Start("Motor.set_goto_target_degrees",
             Motor_set_goto_target_degrees(MotorOf(name), degrees), FALSE,
             Arg(name, degrees))

StartGetPosition(name) ==
    /\ mount.made
    /\ Start("Motor.get_position_degrees", Motor_get_position_degrees(MotorOf(name)),
             FALSE, Arg(name, 0))

StartGetGotoTarget(name) ==
    /\ mount.made
    /\ Start("Motor.get_goto_target_degrees",
             Motor_get_goto_target_degrees(MotorOf(name)),
             FALSE, Arg(name, 0))

StartGetStatus(name) ==
    /\ mount.made
    /\ Start("Motor.get_status", Motor_get_status(MotorOf(name)), FALSE,
             Arg(name, 0))

StartStopMotion ==
    /\ mount.made
    /\ Start("AzGti.stop_motion", AzGti_stop_motion(mount), FALSE, NoArg)

StartStartMotion ==
    /\ mount.made
    /\ Start("AzGti.start_motion", AzGti_start_motion(mount), FALSE, NoArg)

StartAuxSwitch(on) ==
    /\ mount.made
    /\ Start("AzGti.set_aux_switch", AzGti_set_aux_switch(on), FALSE, NoArg)

\* a slip: the exception of a failed exchange is swallowed and the operation
\* goes on with its next step
Propagates_never(e) ==
    /\ todo' = Tail(todo)
    /\ UNCHANGED <<mpc, merr>>

\* send_command raised e inside an operation: nothing catches it, the rest
\* of the operation is not run and the caller gets e
Propagates(e) ==
    /\ todo' = << >>
    /\ mpc' = "raised"
    /\ merr' = e

\* the next step hands its command to the transport and the device replies
StepReplied(response) ==
    /\ mpc = "run"
    /\ todo # << >>
    /\ Head(todo).kind = "send"
    /\ response \in Responses(Head(todo))
    /\ LET step == Head(todo)
           got == Exchange(step, response)
       IN  /\ wire' = Append(wire, Message(step))
           /\ outcomes' = Append(outcomes, got.raises)
           /\ running' = DeviceAfter(step, got.raises = "None")
           /\ IF got.raises = "None"
              THEN /\ todo' = Tail(todo)
                   /\ acc' = IF step.use = "to_int" THEN Append(acc, got.value) ELSE acc
                   /\ UNCHANGED <<mpc, merr>>
              ELSE /\ Propagates(got.raises)
                   /\ UNCHANGED acc
    /\ UNCHANGED <<op, mount, samples, sampling, iter, arg, ret, prev, codecVars, transportVars>>

\* the next step hands its command to the transport and no reply comes
StepTimesOut ==
    /\ mpc \in {"run", "poll_az", "poll_dec"}
    /\ mpc = "run" => (todo # << >> /\ Head(todo).kind = "send")
    /\ LET step == IF mpc = "run" THEN Head(todo)
                   ELSE Inq(InquireStatus, IF mpc = "poll_az" THEN Channel1 ELSE Channel2)
       IN  /\ wire' = Append(wire, Message(step))
           /\ outcomes' = Append(outcomes, "SynscanSocketTimeoutError")
    /\ todo' = << >>
    /\ mpc' = "raised"
    /\ merr' = "SynscanSocketTimeoutError"
    /\ UNCHANGED <<op, mount, acc, running, samples, sampling, iter, arg, ret, prev, codecVars,
                   transportVars>>

\* the next step of the code raises
StepRaises ==
    /\ mpc = "run"
    /\ todo # << >>
    /\ Head(todo).kind = "raise"
    /\ todo' = << >>
    /\ mpc' = "raised"
    /\ merr' = Head(todo).command
    /\ UNCHANGED <<op, wire, mount, acc, running, samples, sampling, iter,
                   outcomes, arg, ret, prev, codecVars, transportVars>>

\* the steps are done: wifi_mount returns cls(comm, azimuth, declination),
\* goto enters its loop, get_position_degrees and get_goto_target_degrees
\* convert the value read, the others return
StepsDone ==
    /\ mpc = "run"
    /\ todo = << >>
    /\ IF op \in GetOps /\ MotorOf(arg.motor).counts_per_revolution = 0
       THEN /\ mpc' = "raised"
            /\ merr' = "ZeroDivisionError"
            /\ ret' = ret
       ELSE /\ mpc' = IF op = "goto" THEN "poll_az" ELSE "returned"
            /\ merr' = merr
            /\ ret' = IF op \in GetOps
                      THEN position_degrees(MotorOf(arg.motor), acc[1])
                      ELSE ret
    /\ mount' = IF op = "wifi_mount"
                THEN [made |-> TRUE,
                      az |-> Motor(Channel1, acc[1], acc[2]),
                      dec |-> Motor(Channel2, acc[3], acc[4])]
                ELSE mount
    /\ UNCHANGED <<op, todo, wire, acc, running, samples, sampling, iter,
                   outcomes, arg, prev, codecVars, transportVars>>

\* goto: while self.is_running() asks a motor for its status; any() stops at
\* the first motor that reports running, and the loop body follows; when
\* neither runs, goto returns samples
Poll(response) ==
    /\ mpc \in {"poll_az", "poll_dec"}
    /\ LET step == Inq(InquireStatus, IF mpc = "poll_az" THEN Channel1 ELSE Channel2)
           got == Exchange(step, response)
       IN  /\ response \in Responses(step)
           /\ wire' = Append(wire, Message(step))
           /\ outcomes' = Append(outcomes, got.raises)
           /\ IF got.raises # "None"
              THEN /\ mpc' = "raised"
                   /\ merr' = got.raises
                   /\ UNCHANGED iter
              ELSE LET next == after_status(mpc, is_running(got.value))
                   IN  /\ next = "sleep" => iter < MaxPolls
                       /\ mpc' = next
                       /\ iter' = IF next = "sleep" THEN iter + 1 ELSE iter
                       /\ UNCHANGED merr
    /\ UNCHANGED <<op, todo, mount, acc, running, samples, sampling, arg, ret, prev, codecVars,
                   transportVars>>

\* goto's loop body: sleep(sample_cadence_seconds), then the sampler
Sleep ==
    /\ mpc = "sleep"
    /\ samples' = append_sample(samples, sampling)
    /\ mpc' = "poll_az"
    /\ UNCHANGED <<op, todo, wire, merr, mount, acc, running, sampling, iter,
                   outcomes, arg, ret, prev, codecVars, transportVars>>

\* the device: a running axis comes to rest
AxisStops(channel) ==
    /\ running[channel]
    /\ running' = [running EXCEPT ![channel] = FALSE]
    /\ UNCHANGED <<op, mpc, todo, wire, merr, mount, acc, samples, sampling, iter,
                   outcomes, arg, ret, prev, codecVars, transportVars>>

AllResponses ==
    UNION {Responses(Inq(c, Channel1)) :
              c \in {InquireCountsPerRevolution, InquireTimerInterruptFreq, StopMotion}}
    \cup {MotorControllerMessage_to_bytes(from_int(w)) : w \in {256, 257}}
    \cup Responses(Inq(InquirePosition, Channel1))
    \cup Responses(Inq(InquirePosition, Channel2))
    \cup Responses(Inq(InquireGotoTargetPosition, Channel1))
    \cup Responses(Inq(InquireGotoTargetPosition, Channel2))

NextMount ==
    \/ StartWifiMount
    \/ \E c1 \in CoordSample, c2 \in CoordSample, sp \in {"Fast", "Slow"}, sampler \in BOOLEAN :
          StartGoto(<<c1, c2>>, sp, sampler)
    \/ \E s1 \in SpeedSample, s2 \in SpeedSample : StartTrack(<<s1, s2>>)
    \/ \E dps \in SpeedSample : StartMotorTrack(dps)
    \/ \E name \in {"az", "dec"}, degrees \in DegreeSample : StartSetPosition(name, degrees)
    \/ \E name \in {"az", "dec"}, degrees \in DegreeSample : StartSetGotoTarget(name, degrees)
    \/ \E name \in {"az", "dec"} : StartGetPosition(name)
    \/ \E name \in {"az", "dec"} : StartGetGotoTarget(name)
    \/ \E name \in {"az", "dec"} : StartGetStatus(name)
    \/ StartStopMotion
    \/ StartStartMotion
    \/ \E on \in BOOLEAN : StartAuxSwitch(on)
    \/ \E response \in AllResponses : StepReplied(response)
    \/ StepTimesOut
    \/ StepRaises
    \/ StepsDone
    \/ CallOver
    \/ \E response \in AllResponses : Poll(response)
    \/ Sleep
    \/ \E channel \in Channels : AxisStops(channel)

SpecMount == InitMount /\ [][NextMount]_vars

\* the caller's own steps: the next exchange of the operation, its outcome,
\* the loop of goto
CallerStep ==
    \/ /\ mpc = "run" /\ todo # << >> /\ Head(todo).kind = "send"
       /\ \E response \in Responses(Head(todo)) : StepReplied(response)
    \/ StepTimesOut
    \/ StepRaises
    \/ StepsDone
    \/ /\ mpc \in {"poll_az", "poll_dec"}
       /\ \E response \in Responses(Inq(InquireStatus,
                                IF mpc = "poll_az" THEN Channel1 ELSE Channel2)) :
              Poll(response)
    \/ Sleep

\* the same, the caller kept running: an operation that can take its next
\* step eventually takes it (send_command returns or raises after at most
\* three timeouts, sleep returns).  Nothing is assumed of the device.
SpecMountFair == SpecMount /\ WF_vars(CallerStep)

\* positions in the wire log of a command on a channel
At(command, channel) ==
    {i \in 1..Len(wire) : wire[i].command = command /\ wire[i].channel = channel}

Before(is, js) == \A j \in js : \E i \in is : i < j

\* C5: wifi_mount returns a mount only after the handshake (InitializationDone
\* on both channels, empty payload) and the four calibration inquiries have
\* all succeeded, in that order with the handshake first; when the handshake
\* or an inquiry fails (timeout, invalid response, device error) wifi_mount
\* raises and no mount is returned.
C5_WifiMountAllOrNothing ==
    op = "wifi_mount" =>
        /\ wire # << >> => wire[1] = Message(validate_is_comm[1])
        /\ mpc = "returned" =>
              /\ mount.made
              /\ wire = [i \in 1..5 |-> Message(wifi_mount[i])]
              /\ outcomes = [i \in 1..5 |-> "None"]
              /\ mount.az = Motor(Channel1, acc[1], acc[2])
              /\ mount.dec = Motor(Channel2, acc[3], acc[4])
        /\ (\E i \in 1..Len(outcomes) : outcomes[i] # "None") =>
              /\ mpc = "raised"
              /\ ~mount.made
        /\ mount.made => mpc = "returned"

\* wifi_mount has returned a mount
C5_Witness ==
    /\ op = "wifi_mount"
    /\ mpc = "returned"
    /\ mount.made
    /\ Len(wire) = 5

\* C6: in goto, on each axis a StopMotion precedes the SetMotionMode, the
\* SetMotionMode precedes the SetGotoTarget and the SetGotoTarget precedes the
\* StartMotion; no StartMotion is sent on either axis before both targets.
C6_GotoOrder ==
    op = "goto" =>
        \A channel \in Channels :
            /\ Before(At(StopMotion, channel), At(SetMotionMode, channel))
            /\ Before(At(SetMotionMode, channel), At(SetGotoTarget, channel))
            /\ Before(At(SetGotoTarget, channel), At(StartMotion, channel))
            /\ \A other \in Channels :
                  Before(At(SetGotoTarget, other), At(StartMotion, channel))

\* goto has sent StartMotion on both axes
C6_Witness ==
    /\ op = "goto"
    /\ At(StartMotion, Channel1) # {}
    /\ At(StartMotion, Channel2) # {}

\* C7: goto returns one sampler result per iteration of its poll loop, in
\* invocation order, when a sampler is supplied, and an empty list when none
\* is: after exactly 2 polls that reported running the list has length 2,
\* resp. 0.
C7_SamplesPerPoll ==
    (op = "goto" /\ mpc = "returned") =>
        /\ sampling => samples = [k \in 1..iter |-> k]
        /\ ~sampling => samples = << >>

\* goto has returned 2 samples after 2 polls that reported running
C7_Witness ==
    /\ op = "goto"
    /\ mpc = "returned"
    /\ sampling
    /\ iter = 2
    /\ Len(samples) = 2

\* goto is inside its poll loop
InPollLoop == op = "goto" /\ mpc \in {"poll_az", "poll_dec", "sleep"}

\* C25: goto returns only after a poll that asked the azimuth motor and
\* then the declination motor for their status, both exchanges succeeding
\* and both axes reported not running; a poll whose axis is reported running
\* does not end the loop (goto sleeps, or raises the failure of the
\* exchange), and after the sleep goto polls again; and once the device has
\* both axes stopped, goto in its loop returns, or raises the failure of an
\* exchange.
C25_GotoReturnsWhenStopped ==
    /\ [](op = "goto" /\ mpc = "returned" =>
            LET n == Len(wire)
            IN  /\ n >= 12
                /\ wire[n - 1] = Message(Inq(InquireStatus, Channel1))
                /\ wire[n] = Message(Inq(InquireStatus, Channel2))
                /\ outcomes[n - 1] = "None"
                /\ outcomes[n] = "None"
                /\ ~running[Channel1]
                /\ ~running[Channel2])
    /\ [][/\ (op = "goto" /\ mpc = "poll_az" /\ running[Channel1] /\ mpc' # mpc)
                => mpc' \in {"sleep", "raised"}
          /\ (op = "goto" /\ mpc = "poll_dec" /\ running[Channel2] /\ mpc' # mpc)
                => mpc' \in {"sleep", "raised"}
          /\ (op = "goto" /\ mpc = "sleep" /\ mpc' # mpc) => mpc' = "poll_az"]_vars
    /\ (InPollLoop /\ ~running[Channel1] /\ ~running[Channel2])
          ~> \/ op = "goto" /\ mpc = "returned"
             \/ /\ op = "goto" /\ mpc = "raised"
                /\ outcomes[Len(outcomes)] # "None"

\* goto has returned without a sampler after polls that reported an axis
\* running and a last poll that reported both stopped
C25_Witness ==
    /\ op = "goto"
    /\ mpc = "returned"
    /\ ~sampling
    /\ iter >= 2
    /\ Len(wire) >= 15

MultiStepOps == {"goto", "AzGti.track", "wifi_mount"}

\* the last exchange of the operation failed
ExchangeFailed == outcomes # << >> /\ outcomes[Len(outcomes)] # "None"

\* C26: in goto, AzGti.track and wifi_mount every exchange has succeeded
\* except possibly the last one made; when that one failed (the timeout
\* after the transport's retries, a controller error, bytes that are no
\* valid response, a payload that is no number) the operation has raised
\* that failure, its remaining steps are dropped, and from then on it puts
\* nothing on the wire: no retry of the step, no stop command; the step
\* that fails leaves the axes as they were, one already started running.
C26_FailurePropagates ==
    /\ [](op \in MultiStepOps =>
            /\ Len(outcomes) = Len(wire)
            /\ \A i \in 1..(Len(outcomes) - 1) : outcomes[i] = "None"
            /\ ExchangeFailed =>
                  /\ mpc = "raised"
                  /\ merr = outcomes[Len(outcomes)]
                  /\ todo = << >>)
    /\ [][(op \in MultiStepOps /\ mpc = "raised") =>
              (wire' = wire \/ mpc' = "idle")]_vars
    /\ [][(op \in MultiStepOps /\ ~ExchangeFailed /\ ExchangeFailed') =>
              running' = running]_vars

\* goto started the azimuth axis, the StartMotion of the declination axis
\* failed, goto has raised and the azimuth axis is running
C26_Witness ==
    /\ op = "goto"
    /\ mpc = "raised"
    /\ Len(wire) = 10
    /\ outcomes[9] = "None"
    /\ outcomes[10] = "MotorControllerError"
    /\ running[Channel1]
    /\ ~running[Channel2]

\* C27: the command sent last is never a SetMotionMode for an axis that is
\* running: set_goto_mode and set_tracking_mode send it only once the axis
\* they stopped has come to rest.  (The device acknowledges StopMotion at
\* once and the axis stops some steps later; nothing but an acknowledged
\* StartMotion, which is another command, sets an axis running, so an axis
\* that runs just after the SetMotionMode was sent ran when it was sent.)
C27_ModeChangeAtRest ==
    (wire # << >> /\ wire[Len(wire)].command = SetMotionMode) =>
        ~running[wire[Len(wire)].channel]

\* C8: when a requested tracking speed is rejected (MaximumSpeedExceeded or
\* MinimumSpeedExceeded), Motor.track and AzGti.track have sent no command.
C8_SpeedRejectedBeforeAnySend ==
    (op \in {"Motor.track", "AzGti.track"}
        /\ merr \in {"MaximumSpeedExceeded", "MinimumSpeedExceeded"})
            => wire = << >>

\* the bytes of the i-th command of the operation, as _make_call sends them
Datagram(i) == CommandMessage_to_bytes(wire[i])

\* the value a set_... operation called with arg has to put on the wire
OffsetCount == degrees_to_count(MotorOf(arg.motor), arg.degrees) + MotorPositionOffset

\* C14: every command goes out as ':' + command byte + channel byte + the
\* payload with its 2-character groups in reverse order + '\r';
\* set_position_degrees sends SetPosition with the logical count plus
\* 0x800000 as its payload, 6 hex digits when the value fits the 24-bit
\* field; for logical count 0 on channel 1 the bytes are :E1000080\r.
C14_SetPositionBytes ==
    /\ \A i \in 1..Len(wire) :
          LET p == wire[i].payload
              b == Datagram(i)
          IN  /\ Len(b) = Len(p) + 4
              /\ b[1] = ":" /\ b[2] = wire[i].command /\ b[3] = wire[i].channel
              /\ b[Len(b)] = CR
              /\ Len(p) % 2 = 0 =>
                    \A k \in 1..(Len(p) \div 2) :
                        SubSeq(b, 2 + 2 * k, 3 + 2 * k) =
                            SubSeq(p, Len(p) - 2 * k + 1, Len(p) - 2 * k + 2)
    /\ (op = "Motor.set_position_degrees" /\ wire # << >>) =>
          /\ Len(wire) = 1
          /\ wire[1].command = SetPosition
          /\ wire[1].channel = MotorOf(arg.motor).channel
          /\ OffsetCount >= 0 => to_int(wire[1].payload) = OffsetCount
          /\ OffsetCount \in 0..16777215 => Len(wire[1].payload) = 6
          /\ (arg.motor = "az" /\ arg.degrees = 0) =>
                Datagram(1) = <<":", "E", "1", "0", "0", "0", "0", "8", "0", CR>>

\* set_position_degrees(0) on channel 1 has sent :E1000080\r
C14_Witness ==
    /\ op = "Motor.set_position_degrees"
    /\ arg = Arg("az", 0)
    /\ mpc = "returned"
    /\ Len(wire) = 1
    /\ Datagram(1) = <<":", "E", "1", "0", "0", "0", "0", "8", "0", CR>>

\* C15: every command an operation sends, whatever angle or speed it was
\* called with, has a payload of 0 to 6 hex digits: an unsigned integer in
\* 0..0xFFFFFF.
C15_PayloadFitsField ==
    \A i \in 1..Len(wire) :
        /\ Len(wire[i].payload) <= 6
        /\ \A k \in 1..Len(wire[i].payload) : IsHexDigit(wire[i].payload[k])

\* C16: set_position_degrees and set_goto_target_degrees send
\* degrees_to_count(d) + 0x800000; get_position_degrees and
\* get_goto_target_degrees take 0x800000 off the value read before converting
\* it; when the device echoes the value the set_... call just before sent,
\* for d in [0, 360), the get returns count_to_degrees(degrees_to_count(d)).
C16_OffsetSymmetric ==
    /\ (op \in SetOps /\ wire # << >>) =>
          /\ wire[1].command = IF op = "Motor.set_position_degrees"
                               THEN SetPosition ELSE SetGotoTarget
          /\ OffsetCount >= 0 => to_int(wire[1].payload) = OffsetCount
    /\ (op \in GetOps /\ mpc = "returned") =>
          LET m == MotorOf(arg.motor)
          IN  /\ wire[1].command = IF op = "Motor.get_position_degrees"
                                   THEN InquirePosition ELSE InquireGotoTargetPosition
              /\ ret = count_to_degrees(m, acc[1] - MotorPositionOffset)
              /\ (/\ EchoOf(prev, wire[1]) # {}
                  /\ acc[1] = to_int(prev.payload)
                  /\ prev.degrees \in 0..359) =>
                    ret = count_to_degrees(m, degrees_to_count(m, prev.degrees))

\* get_position_degrees has returned 90 degrees after set_position_degrees(90)
\* on the same motor, the device echoing
C16_Witness ==
    /\ op = "Motor.get_position_degrees"
    /\ mpc = "returned"
    /\ prev.op = "Motor.set_position_degrees"
    /\ prev.degrees = 90
    /\ EchoOf(prev, wire[1]) # {}
    /\ acc[1] = to_int(prev.payload)
    /\ ret.num = 90 * ret.den

\* the preset of a speed, the quotient before the bounds are applied
PresetOf(m, dps) ==
    MulDiv(m.timer_interrupt_frequency * 360, dps.den,
           Abs(dps.num) * m.counts_per_revolution)

\* the operation raised although every exchange succeeded
RaisedByItself ==
    mpc = "raised" /\ \A i \in 1..Len(outcomes) : outcomes[i] = "None"

\* C17: a speed whose preset is in [10, 0xFFFFFF] is sent as that preset, one
\* whose preset is below 10 raises MaximumSpeedExceeded and one whose preset
\* is above 0xFFFFFF raises MinimumSpeedExceeded; with
\* timer_interrupt_frequency 20000 and counts_per_revolution 200 the presets
\* 10 and 0xFFFFFF are sent, 9 raises MaximumSpeedExceeded and 0x1000000
\* raises MinimumSpeedExceeded; every SetStepPeriod sent carries a preset in
\* [10, 0xFFFFFF].
C17_PresetBounds ==
    /\ \A i \in 1..Len(wire) :
          wire[i].command = SetStepPeriod =>
              /\ ~to_int_raises(wire[i].payload)
              /\ to_int(wire[i].payload) \in 10..16777215
    /\ (op = "Motor.track" /\ arg.speed.num # 0) =>
          LET m == MotorOf(arg.motor)
              p == PresetOf(m, arg.speed)
              sent == {to_int(wire[i].payload) : i \in At(SetStepPeriod, m.channel)}
              given == m.timer_interrupt_frequency = 20000
                         /\ m.counts_per_revolution = 200
          IN  /\ p < 10 => sent = {} /\ (RaisedByItself => merr = "MaximumSpeedExceeded")
              /\ p > 16777215 =>
                    sent = {} /\ (RaisedByItself => merr = "MinimumSpeedExceeded")
              /\ p \in 10..16777215 => sent \subseteq {p} /\ ~RaisedByItself
              /\ (given /\ arg.speed = [num |-> 3600, den |-> 1]) => sent \subseteq {10}
              /\ (given /\ arg.speed = [num |-> 72000, den |-> 33554431]) =>
                    sent \subseteq {16777215}
              /\ (given /\ arg.speed = [num |-> 4000, den |-> 1]) =>
                    /\ p = 9
                    /\ RaisedByItself => merr = "MaximumSpeedExceeded"
              /\ (given /\ arg.speed = [num |-> 36000, den |-> 16777216]) =>
                    /\ p = 16777216
                    /\ RaisedByItself => merr = "MinimumSpeedExceeded"
              /\ (mpc = "returned" /\ p \in 10..16777215) => sent = {p}

\* Motor.track has sent the preset 10 for 3600 degrees per second, with
\* timer_interrupt_frequency 20000 and counts_per_revolution 200
C17_Witness ==
    /\ op = "Motor.track"
    /\ arg.speed = [num |-> 3600, den |-> 1]
    /\ MotorOf(arg.motor).counts_per_revolution = 200
    /\ MotorOf(arg.motor).timer_interrupt_frequency = 20000
    /\ mpc = "returned"
    /\ \E i \in At(SetStepPeriod, Channel1) : wire[i].payload = <<"0", "0", "0", "0", "0", "A">>

\* C28: Motor.track and AzGti.track, when every exchange succeeded, return or
\* raise MaximumSpeedExceeded or MinimumSpeedExceeded and nothing else, for
\* every requested speed; Motor.track with speed 0 raises
\* MinimumSpeedExceeded.
C28_TypedSpeedErrorsOnly ==
    (op \in {"Motor.track", "AzGti.track"} /\ RaisedByItself) =>
        /\ merr \in {"MaximumSpeedExceeded", "MinimumSpeedExceeded"}
        /\ (op = "Motor.track" /\ arg.speed.num = 0) =>
              merr = "MinimumSpeedExceeded"

\* C20: calibration is queried once and immutable: wifi_mount sends each of
\* InquireCountsPerRevolution and InquireTimerInterruptFreq at most once per
\* channel, no other operation sends either, and once the mount is made no
\* step of any operation changes a motor's counts_per_revolution or
\* timer_interrupt_frequency.
C20_CalibrationImmutable ==
    /\ [](\A command \in {InquireCountsPerRevolution, InquireTimerInterruptFreq} :
            \A channel \in Channels :
                /\ op # "wifi_mount" => At(command, channel) = {}
                /\ Cardinality(At(command, channel)) <= 1)
    /\ [][mount.made => mount' = mount]_vars

\* a goto has returned on a mount calibrated with 200 and 360 counts per
\* revolution
C20_Witness ==
    /\ op = "goto"
    /\ mpc = "returned"
    /\ mount.made
    /\ mount.az.counts_per_revolution = 200
    /\ mount.dec.counts_per_revolution = 360
    /\ mount.az.timer_interrupt_frequency = 20000

\* the commands Motor.track has to send for a speed, up to the point where the
\* speed is rejected
TrackCommands(m, dps) ==
    << [command |-> StopMotion, channel |-> m.channel, payload |-> << >>],
       [command |-> SetMotionMode, channel |-> m.channel,
        payload |-> <<"1", IF dps.num >= 0 THEN "0" ELSE "1">>] >> \o
    (IF dps.num # 0 /\ PresetOf(m, dps) \in 10..16777215
     THEN << [command |-> SetStepPeriod, channel |-> m.channel,
              payload |-> from_int(PresetOf(m, dps))],
             [command |-> StartMotion, channel |-> m.channel, payload |-> << >>] >>
     ELSE << >>)

IsPrefix(s, t) == Len(s) <= Len(t) /\ s = SubSeq(t, 1, Len(s))

\* C21: AzGti.track sends StopMotion to both axes first, then for the azimuth
\* motor and after it for the declination motor StopMotion, SetMotionMode
\* (tracking, clockwise for a speed >= 0 and counter-clockwise for a negative
\* one), SetStepPeriod with the preset of the absolute value of that axis's
\* own speed, and StartMotion, in this order.
C21_TrackOrder ==
    op = "AzGti.track" =>
        LET az == TrackCommands(mount.az, arg.speeds[1])
            dec == TrackCommands(mount.dec, arg.speeds[2])
        IN  /\ IsPrefix(wire,
                  << [command |-> StopMotion, channel |-> Channel1, payload |-> << >>],
                     [command |-> StopMotion, channel |-> Channel2, payload |-> << >>] >>
                  \o az \o (IF Len(az) = 4 THEN dec ELSE << >>))
            /\ mpc = "returned" => Len(wire) = 10

\* AzGti.track has returned after tracking clockwise on one axis and
\* counter-clockwise on the other
C21_Witness ==
    /\ op = "AzGti.track"
    /\ mpc = "returned"
    /\ arg.speeds = <<[num |-> 1, den |-> 1], [num |-> -1, den |-> 1]>>
    /\ Len(wire) = 10
    /\ wire[4].payload = <<"1", "0">>
    /\ wire[8].payload = <<"1", "1">>

=============================================================================
